---- MODULE Spec2Model ----
(***************************************************************************)
(* Five-stage RV32I pipeline of the pyv simulator: hazard unit             *)
(* (src/pyv/hazard.py), the four pipeline registers                        *)
(* (src/pyv/pipeline_regs.py) and the top-level wiring with the PC glue    *)
(* (src/pyv/models/pipelined.py).  The stage modules, the branch unit,     *)
(* the register file, the memory and the simulation kernel are not part    *)
(* of the sources at hand and follow the design document.                  *)
(*                                                                         *)
(* A 32-bit instruction word is represented by its R-format bit fields     *)
(*   low2 = inst[1:0], opcode = inst[6:2], rd = inst[11:7],                *)
(*   funct3 = inst[14:12], rs1 = inst[19:15], rs2 = inst[24:20],           *)
(*   funct7 = inst[31:25]                                                  *)
(* which partition the word, so that (inst >> 15) & 0x1F is the field rs1. *)
(* 32-bit data values are represented by their signed value.               *)
(***************************************************************************)
EXTENDS Integers, Sequences, FiniteSets, TLC

VARIABLES
    prog,          \* Memory.mem from address 0: the cells written by load_instructions
                   \* or load_binary; cells past its end read as zero
    disasm,        \* a call of Disassembler.disassemble: its argument, whether it has
                   \* returned, and the pair it returned
    gui,           \* PipelinedGUI: its attributes, the state of its buttons, the
                   \* callbacks waiting in the event loop, and an observation of
                   \* the steps executed so far
    loaded,        \* the last load_instructions or load_binary call: its image and
                   \* the exception it ended with, "none" if it returned
    pc, pc_next,   \* Pipelined.pc_reg: cur and next faces
    ifid, ifid_next,     \* IFIDReg.reg
    idex, idex_next,     \* IDEXReg.reg
    exmem, exmem_next,   \* EXMEMReg.reg
    memwb, memwb_next,   \* MEMWBReg.reg
    regf,          \* Regfile
    csr,           \* CSRUnit: mtvec, mepc, mcause
    dmem,          \* data words of Memory
    hz,            \* output ports of the hazard unit
    take_branch,   \* Pipelined.take_branch wire
    memwb_flush_i, \* MEMWBReg.flush_i
    alu_res,       \* Pipelined.alu_res wire
    pending,       \* work queue of the settle pass
    cyc,           \* cycle counter of the simulator
    prev           \* observation: registers, settled signals and storage of the previous
                   \* cycle, for how many cycles before it IF/ID had been held, how
                   \* many cycles before it a taken branch was in EX (-1: none in the
                   \* last two) with its target, whether every cycle before it
                   \* since reset ran without stall, redirect or trap, and how many
                   \* instructions had entered EX in program order by then

vars == <<prog, loaded, disasm, gui, pc, pc_next, ifid, ifid_next, idex, idex_next, exmem, exmem_next,
          memwb, memwb_next, regf, csr, dmem, hz, take_branch, alu_res,
          memwb_flush_i, pending, cyc, prev>>

----------------------------------------------------------------------------
(* Bounds *)

MaxCycles == 22
BodyLen == 3
MaxSettleCycles == 9
MaxRegCycles == 3
MaxResetCycles == 8
MemSize == 3
FairBodyLen == 2
MaxN == 2
MaxTimers == 2
MaxStable == 7

----------------------------------------------------------------------------
(* ISA tables *)

OPCODES == [LOAD |-> 0, OPIMM |-> 4, AUIPC |-> 5, STORE |-> 8, OP |-> 12,
            LUI |-> 13, BRANCH |-> 24, JALR |-> 25, JAL |-> 27, SYSTEM |-> 28]

CSR_F3 == [CSRRW |-> 1, CSRRS |-> 2, CSRRC |-> 3, CSRRWI |-> 5, CSRRSI |-> 6, CSRRCI |-> 7]

RegIdx == 0..31

MkInst(opc, rd, f3, rs1, rs2, f7) ==
    [low2 |-> 3, opcode |-> opc, rd |-> rd, funct3 |-> f3,
     rs1 |-> rs1, rs2 |-> rs2, funct7 |-> f7]

\* the all-zero word read from memory that holds no program
ZeroWord == [low2 |-> 0, opcode |-> 0, rd |-> 0, funct3 |-> 0,
             rs1 |-> 0, rs2 |-> 0, funct7 |-> 0]

EncR(f3, f7, rd, rs1, rs2) == MkInst(OPCODES.OP, rd, f3, rs1, rs2, f7)

EncI(opc, f3, rd, rs1, imm) ==
    LET u == imm % 4096 IN MkInst(opc, rd, f3, rs1, u % 32, u \div 32)

EncS(f3, rs1, rs2, imm) ==
    LET u == imm % 4096 IN MkInst(OPCODES.STORE, u % 32, f3, rs1, rs2, u \div 32)

EncB(f3, rs1, rs2, imm) ==
    LET u == imm % 8192 IN
    MkInst(OPCODES.BRANCH, ((u \div 2) % 16) * 2 + ((u \div 2048) % 2), f3, rs1, rs2,
           ((u \div 4096) % 2) * 64 + ((u \div 32) % 64))

EncJ(rd, imm) ==
    LET u == imm % 2097152 IN
    MkInst(OPCODES.JAL, rd, (u \div 4096) % 8, (u \div 32768) % 32,
           ((u \div 2) % 16) * 2 + ((u \div 2048) % 2),
           ((u \div 1048576) % 2) * 64 + ((u \div 32) % 64))

NOP == EncI(OPCODES.OPIMM, 0, 0, 0, 0)          \* 0x00000013

ECALL == EncI(OPCODES.SYSTEM, 0, 0, 0, 0)       \* 0x00000073
MRET == EncI(OPCODES.SYSTEM, 0, 0, 0, 770)      \* 0x30200073

CSRRW(rd, csr_addr, rs1) == EncI(OPCODES.SYSTEM, CSR_F3.CSRRW, rd, rs1, csr_addr)
ADDI(rd, rs1, imm) == EncI(OPCODES.OPIMM, 0, rd, rs1, imm)
ADD(rd, rs1, rs2) == EncR(0, 0, rd, rs1, rs2)
LW(rd, rs1, imm) == EncI(OPCODES.LOAD, 2, rd, rs1, imm)
SW(rs2, rs1, imm) == EncS(2, rs1, rs2, imm)
BEQ(rs1, rs2, imm) == EncB(0, rs1, rs2, imm)
BNE(rs1, rs2, imm) == EncB(1, rs1, rs2, imm)
JAL(rd, imm) == EncJ(rd, imm)
JALR(rd, rs1, imm) == EncI(OPCODES.JALR, 0, rd, rs1, imm)
LUI(rd, imm20) == MkInst(OPCODES.LUI, rd, imm20 % 8, (imm20 \div 8) % 32,
                         (imm20 \div 256) % 32, (imm20 \div 8192) % 128)
AUIPC(rd, imm20) == MkInst(OPCODES.AUIPC, rd, imm20 % 8, (imm20 \div 8) % 32,
                           (imm20 \div 256) % 32, (imm20 \div 8192) % 128)

SExt(v, n) == IF v >= 2 ^ (n - 1) THEN v - 2 ^ n ELSE v

\* immediate of an instruction word by instruction class
decode_imm(inst) ==
    LET opc == inst.opcode
        sign == inst.funct7 \div 64
    IN  IF opc \in {OPCODES.OPIMM, OPCODES.LOAD, OPCODES.JALR}
        THEN SExt(inst.funct7 * 32 + inst.rs2, 12)
        ELSE IF opc = OPCODES.STORE
        THEN SExt(inst.funct7 * 32 + inst.rd, 12)
        ELSE IF opc = OPCODES.BRANCH
        THEN SExt(sign * 4096 + (inst.rd % 2) * 2048 + (inst.funct7 % 64) * 32
                  + (inst.rd \div 2) * 2, 13)
        ELSE IF opc \in {OPCODES.LUI, OPCODES.AUIPC}
        THEN SExt(inst.funct7 * 8192 + inst.rs2 * 256 + inst.rs1 * 8 + inst.funct3, 20) * 4096
        ELSE IF opc = OPCODES.JAL
        THEN SExt(sign * 1048576 + (inst.rs1 * 8 + inst.funct3) * 4096
                  + (inst.rs2 % 2) * 2048
                  + ((inst.funct7 % 64) * 16 + inst.rs2 \div 2) * 2, 21)
        ELSE 0

----------------------------------------------------------------------------
(* Pipeline records *)

\* IFIDBubble with pc 0 in place of -4
IFIDBubble_PcZero == [inst |-> NOP, pc |-> 0]

IFIDBubble == [inst |-> NOP, pc |-> -4]

IDEXBubble == [pc |-> 0, rs1 |-> 0, rs2 |-> 0, imm |-> 0, rd |-> 0,
               rs1_idx |-> 0, rs2_idx |-> 0, opcode |-> 0, funct3 |-> 0,
               funct7 |-> 0, we |-> FALSE, wb_sel |-> 0, mem |-> 0,
               is_branch |-> FALSE]

EXMEMBubble == [pc4 |-> 0, alu_res |-> 0, rs2 |-> 0, rd |-> 0, we |-> FALSE,
                wb_sel |-> 0, mem |-> 0, funct3 |-> 0, take_branch |-> FALSE]

MEMWBBubble == [pc4 |-> 0, alu_res |-> 0, mem_rdata |-> 0, rd |-> 0,
                we |-> FALSE, wb_sel |-> 0]

----------------------------------------------------------------------------
(* Stage modules, branch unit, register file and memory *)

\* instruction-memory read port: the word at address a of memory holding program p
Fetch(p, a) ==
    IF a >= 0 /\ a % 4 = 0 /\ a \div 4 < Len(p) THEN p[a \div 4 + 1] ELSE ZeroWord

\* IF stage: the instruction word at PC, and PC itself
IFStage == [inst |-> Fetch(prog, pc), pc |-> pc]

\* WB stage: writeback value selected by wb_sel
WBValue(mw) ==
    IF mw.wb_sel = 0 THEN mw.alu_res
    ELSE IF mw.wb_sel = 1 THEN mw.pc4
    ELSE IF mw.wb_sel = 2 THEN mw.mem_rdata
    ELSE 0

\* RegfileWrite with writes to index 0 not discarded
RegfileWrite_X0Writable(rf, mw) ==
    IF mw.we THEN [rf EXCEPT ![mw.rd] = WBValue(mw)] ELSE rf

\* register file after the WB stage's write command
RegfileWrite(rf, mw) ==
    IF mw.we /\ mw.rd # 0 THEN [rf EXCEPT ![mw.rd] = WBValue(mw)] ELSE rf

RegfileRead(rf, idx) == IF idx = 0 THEN 0 ELSE rf[idx]

\* decode of an IF/ID record, reading its sources from register file rf
Decode(fd, rf) ==
    LET inst == fd.inst
        opc == inst.opcode
        known == inst.low2 = 3 /\
                 opc \in {OPCODES.OP, OPCODES.OPIMM, OPCODES.LOAD, OPCODES.STORE,
                          OPCODES.BRANCH, OPCODES.JAL, OPCODES.JALR, OPCODES.LUI,
                          OPCODES.AUIPC}
    IN  IF ~known THEN [IDEXBubble EXCEPT !.pc = fd.pc]
        ELSE [pc |-> fd.pc,
              rs1 |-> RegfileRead(rf, inst.rs1),
              rs2 |-> RegfileRead(rf, inst.rs2),
              imm |-> decode_imm(inst),
              rd |-> inst.rd,
              rs1_idx |-> inst.rs1,
              rs2_idx |-> inst.rs2,
              opcode |-> opc,
              funct3 |-> inst.funct3,
              funct7 |-> inst.funct7,
              we |-> opc \in {OPCODES.OP, OPCODES.OPIMM, OPCODES.LOAD, OPCODES.JAL,
                              OPCODES.JALR, OPCODES.LUI, OPCODES.AUIPC},
              wb_sel |-> IF opc \in {OPCODES.JAL, OPCODES.JALR} THEN 1
                         ELSE IF opc = OPCODES.LOAD THEN 2 ELSE 0,
              mem |-> IF opc = OPCODES.LOAD THEN 1
                      ELSE IF opc = OPCODES.STORE THEN 2 ELSE 0,
              is_branch |-> opc = OPCODES.BRANCH]

\* ID stage; the write of the WB stage precedes the read within a cycle
IDStage == Decode(ifid, RegfileWrite(regf, memwb))

\* EX stage: ALU result and branch decision of a decoded record
EXStage(d) ==
    LET opc == d.opcode
        isinst == d.we \/ d.mem # 0 \/ d.is_branch
        res == IF ~isinst THEN 0
               ELSE IF opc = OPCODES.OP
               THEN (IF d.funct7 = 32 THEN d.rs1 - d.rs2 ELSE d.rs1 + d.rs2)
               ELSE IF opc \in {OPCODES.OPIMM, OPCODES.LOAD, OPCODES.STORE}
               THEN d.rs1 + d.imm
               ELSE IF opc \in {OPCODES.BRANCH, OPCODES.JAL, OPCODES.AUIPC}
               THEN d.pc + d.imm
               ELSE IF opc = OPCODES.JALR
               THEN (d.rs1 + d.imm) - ((d.rs1 + d.imm) % 2)
               ELSE IF opc = OPCODES.LUI THEN d.imm
               ELSE 0
        taken == /\ isinst
                 /\ \/ opc \in {OPCODES.JAL, OPCODES.JALR}
                    \/ /\ opc = OPCODES.BRANCH
                       /\ \/ d.funct3 = 0 /\ d.rs1 = d.rs2
                          \/ d.funct3 = 1 /\ d.rs1 # d.rs2
                          \/ d.funct3 = 4 /\ d.rs1 < d.rs2
                          \/ d.funct3 = 5 /\ d.rs1 >= d.rs2
    IN  [pc4 |-> d.pc + 4, alu_res |-> res, rs2 |-> d.rs2, rd |-> d.rd,
         we |-> d.we, wb_sel |-> d.wb_sel, mem |-> d.mem, funct3 |-> d.funct3,
         take_branch |-> taken]

MemRead(m, a) == IF a \in DOMAIN m THEN m[a] ELSE 0

\* data memory after the MEM stage's access
MemWrite(m, e) ==
    IF e.mem = 2 /\ e.alu_res \in DOMAIN m THEN [m EXCEPT ![e.alu_res] = e.rs2] ELSE m

\* MEM stage: load data or pass-through
MEMStage(e, m) ==
    [pc4 |-> e.pc4, alu_res |-> e.alu_res,
     mem_rdata |-> IF e.mem = 1 THEN MemRead(m, e.alu_res) ELSE 0,
     rd |-> e.rd, we |-> e.we, wb_sel |-> e.wb_sel]

\* branch unit: next PC by priority exception, trap return, taken branch, pc + 4
BranchUnit(pc_i, raise_exception_i, mtvec_i, trap_return_i, mepc_i, take_branch_i, target_i) ==
    IF raise_exception_i THEN mtvec_i
    ELSE IF trap_return_i THEN mepc_i
    ELSE IF take_branch_i THEN target_i
    ELSE pc_i + 4

\* ID stage: the ECALL and MRET flags of the instruction in IF/ID
ecall_o(fd) == fd.inst = ECALL

mret_o(fd) == fd.inst = MRET

\* CSR values after reset
CSRReset == [mtvec |-> 0, mepc |-> 0, mcause |-> 0]

\* exception unit: outputs for the PC at pc_i, the flags of ID and CSR values c
ExceptionUnit(pc_i, ecall_i, mret_i, c) ==
    [raise_exception |-> ecall_i,
     trap_return |-> mret_i,
     npc |-> IF ecall_i THEN c.mtvec ELSE c.mepc,
     mepc |-> pc_i,
     mcause |-> 11]

\* CSR unit at the clock edge: mepc and mcause are written on an exception
CSRUnitWrite(c, x) ==
    IF x.raise_exception THEN [c EXCEPT !.mepc = x.mepc, !.mcause = x.mcause] ELSE c

\* the exception unit as wired: pc_i from the PC wire, flags from the ID stage
Excep == ExceptionUnit(pc, ecall_o(ifid), mret_o(ifid), csr)

\* Npc with the take_branch wire not connected to the branch unit
Npc_TakeBranchUnwired(tb, target) ==
    BranchUnit(pc, Excep.raise_exception, Excep.npc, Excep.trap_return, Excep.npc,
               FALSE, target)

\* the npc wire for given values of the take_branch and alu_res wires
Npc(tb, target) ==
    BranchUnit(pc, Excep.raise_exception, Excep.npc, Excep.trap_return, Excep.npc,
               tb, target)

----------------------------------------------------------------------------
(* Hazard unit *)

_needs_rs1(opcode) ==
    opcode \in {OPCODES.OP, OPCODES.OPIMM, OPCODES.LOAD, OPCODES.STORE,
                OPCODES.BRANCH, OPCODES.JALR}

\* _needs_rs2 with OP-IMM counted as reading rs2
_needs_rs2_WithOpImm(opcode) ==
    opcode \in {OPCODES.OP, OPCODES.OPIMM, OPCODES.STORE, OPCODES.BRANCH}

_needs_rs2(opcode) ==
    opcode \in {OPCODES.OP, OPCODES.STORE, OPCODES.BRANCH}

\* HazardStall with the load-use check of rs2 left out
HazardStall_LoadUseRs1Only(fd, dx, xm) ==
    LET inst == fd.inst
        opcode == inst.opcode
        rs1_idx == inst.rs1
        rs2_idx == inst.rs2
        need_rs1 == _needs_rs1(opcode)
        need_rs2 == _needs_rs2(opcode)
    IN  IF inst.low2 = 3
        THEN IF dx.mem = 1
             THEN IF need_rs1 /\ rs1_idx = dx.rd /\ dx.rd # 0 THEN TRUE
                  ELSE FALSE
             ELSE IF dx.we /\ dx.rd # 0
                  THEN (need_rs1 /\ rs1_idx = dx.rd) \/ (need_rs2 /\ rs2_idx = dx.rd)
                  ELSE IF xm.we /\ xm.rd # 0
                  THEN (need_rs1 /\ rs1_idx = xm.rd) \/ (need_rs2 /\ rs2_idx = xm.rd)
                  ELSE FALSE
        ELSE FALSE

\* HazardStall with the check against the EX stage left out
HazardStall_NoExCheck(fd, dx, xm) ==
    LET inst == fd.inst
        opcode == inst.opcode
        rs1_idx == inst.rs1
        rs2_idx == inst.rs2
        need_rs1 == _needs_rs1(opcode)
        need_rs2 == _needs_rs2(opcode)
    IN  IF inst.low2 = 3
        THEN IF dx.mem = 1
             THEN IF need_rs1 /\ rs1_idx = dx.rd /\ dx.rd # 0 THEN TRUE
                  ELSE IF need_rs2 /\ rs2_idx = dx.rd /\ dx.rd # 0 THEN TRUE
                  ELSE FALSE
             ELSE IF xm.we /\ xm.rd # 0
                  THEN (need_rs1 /\ rs1_idx = xm.rd) \/ (need_rs2 /\ rs2_idx = xm.rd)
                  ELSE FALSE
        ELSE FALSE

\* HazardStall with the check against the MEM stage left out
HazardStall_NoMemCheck(fd, dx, xm) ==
    LET inst == fd.inst
        opcode == inst.opcode
        rs1_idx == inst.rs1
        rs2_idx == inst.rs2
        need_rs1 == _needs_rs1(opcode)
        need_rs2 == _needs_rs2(opcode)
    IN  IF inst.low2 = 3
        THEN IF dx.mem = 1
             THEN IF need_rs1 /\ rs1_idx = dx.rd /\ dx.rd # 0 THEN TRUE
                  ELSE IF need_rs2 /\ rs2_idx = dx.rd /\ dx.rd # 0 THEN TRUE
                  ELSE FALSE
             ELSE IF dx.we /\ dx.rd # 0
                  THEN (need_rs1 /\ rs1_idx = dx.rd) \/ (need_rs2 /\ rs2_idx = dx.rd)
                  ELSE FALSE
        ELSE FALSE

\* data-hazard part of HazardUnit.process: TRUE when the decode stage must stall
HazardStall(fd, dx, xm) ==
    LET inst == fd.inst
        opcode == inst.opcode
        rs1_idx == inst.rs1
        rs2_idx == inst.rs2
        need_rs1 == _needs_rs1(opcode)
        need_rs2 == _needs_rs2(opcode)
    IN  IF inst.low2 = 3
        THEN IF dx.mem = 1
             THEN IF need_rs1 /\ rs1_idx = dx.rd /\ dx.rd # 0 THEN TRUE
                  ELSE IF need_rs2 /\ rs2_idx = dx.rd /\ dx.rd # 0 THEN TRUE
                  ELSE FALSE
             ELSE IF dx.we /\ dx.rd # 0
                  THEN (need_rs1 /\ rs1_idx = dx.rd) \/ (need_rs2 /\ rs2_idx = dx.rd)
                  ELSE IF xm.we /\ xm.rd # 0
                  THEN (need_rs1 /\ rs1_idx = xm.rd) \/ (need_rs2 /\ rs2_idx = xm.rd)
                  ELSE FALSE
        ELSE FALSE

\* HazardProcess with a data-hazard stall holding ID/EX in place of flushing it
HazardProcess_HoldsIdEx(fd, dx, xm, tb) ==
    LET stall == HazardStall(fd, dx, xm)
    IN  [stall_pc |-> stall,
         stall_ifid |-> stall,
         stall_idex |-> stall,
         stall_exmem |-> FALSE,
         stall_memwb |-> FALSE,
         flush_ifid |-> tb,
         flush_idex |-> tb,
         flush_exmem |-> FALSE]

\* HazardProcess with a data-hazard stall also holding EX/MEM
HazardProcess_StallsExMem(fd, dx, xm, tb) ==
    LET stall == HazardStall(fd, dx, xm)
    IN  [stall_pc |-> stall,
         stall_ifid |-> stall,
         stall_idex |-> FALSE,
         stall_exmem |-> stall,
         stall_memwb |-> FALSE,
         flush_ifid |-> tb,
         flush_idex |-> stall \/ tb,
         flush_exmem |-> FALSE]

\* HazardUnit.process: the values written to the eight output ports
HazardProcess(fd, dx, xm, tb) ==
    LET stall == HazardStall(fd, dx, xm)
    IN  [stall_pc |-> stall,
         stall_ifid |-> stall,
         stall_idex |-> FALSE,
         stall_exmem |-> FALSE,
         stall_memwb |-> FALSE,
         flush_ifid |-> tb,
         flush_idex |-> stall \/ tb,
         flush_exmem |-> FALSE]

HazardIdle == HazardProcess(IFIDBubble, IDEXBubble, EXMEMBubble, FALSE)

----------------------------------------------------------------------------
(* Pipeline registers: the value of reg.next after process *)

\* IFIDRegProcess with the flush input ignored
IFIDRegProcess_NoFlush(stall, flush, in, nxt) ==
    IF ~stall THEN in
    ELSE nxt

\* IFIDRegProcess with the stall input tested before the flush input
IFIDRegProcess_StallFirst(stall, flush, in, nxt) ==
    IF stall THEN nxt
    ELSE IF flush THEN IFIDBubble
    ELSE in

IFIDRegProcess(stall, flush, in, nxt) ==
    IF flush THEN IFIDBubble
    ELSE IF ~stall THEN in
    ELSE nxt

IDEXRegProcess(stall, flush, in, nxt) ==
    IF flush THEN IDEXBubble
    ELSE IF ~stall THEN in
    ELSE nxt

EXMEMRegProcess(stall, flush, in, nxt) ==
    IF flush THEN EXMEMBubble
    ELSE IF ~stall THEN in
    ELSE nxt

\* MEMWBRegProcess with the stall test inverted
MEMWBRegProcess_StallInverted(stall, flush, in, nxt) ==
    IF flush THEN MEMWBBubble
    ELSE IF stall THEN in
    ELSE nxt

MEMWBRegProcess(stall, flush, in, nxt) ==
    IF flush THEN MEMWBBubble
    ELSE IF ~stall THEN in
    ELSE nxt

\* memwb_reg.flush_i is driven by Constant(False)
const_false == FALSE

----------------------------------------------------------------------------
(* PC glue *)

\* ConnectsPcNext with the stall input ignored
ConnectsPcNext_NoStall(stall, npc, nxt) == npc

\* ConnectsPcNext with the stall test inverted
ConnectsPcNext_StallInverted(stall, npc, nxt) == IF stall THEN npc ELSE nxt

\* Pipelined.connects: pc_reg.next after the call
ConnectsPcNext(stall, npc, nxt) == IF ~stall THEN npc ELSE nxt

----------------------------------------------------------------------------
(* Programs *)

DataAddrs == {64}

\* every program ends in an endless loop, with padding around it
EndLoop == <<JAL(0, 0), NOP, NOP, NOP>>

Pad == <<NOP>>

InstSet ==
    { ADDI(1, 0, 5), ADDI(2, 1, 7), ADD(3, 1, 2), ADD(3, 0, 1),
      LW(1, 0, 64), SW(1, 0, 64), BEQ(0, 0, 8), BNE(1, 0, 8),
      JAL(2, 8), ADDI(2, 0, 7) }

RECURSIVE SeqsOf(_, _)
SeqsOf(S, n) ==
    IF n = 0 THEN {<<>>}
    ELSE {<<x>> \o t : x \in S, t \in SeqsOf(S, n - 1)}

\* the taken-branch scenario of the design document
ProgBranchFlush ==
    <<ADDI(1, 0, 1), BEQ(1, 1, 8), ADDI(2, 0, 42), ADDI(3, 0, 99), ADDI(4, 0, 7)>>

\* the load-use scenario of the design document, with the data word at 64
ProgLoadUse ==
    <<ADDI(10, 0, 100), SW(10, 0, 64), LW(11, 0, 64), ADD(12, 11, 10)>>

\* the ADDI chain of the design document
ProgAddiChain == <<ADDI(1, 0, 5), ADDI(2, 1, 7), ADDI(3, 2, 3)>>

\* a register-indirect jump over one instruction, linking in x5
ProgJalr == <<ADDI(1, 0, 12), JALR(5, 1, 0), ADDI(2, 0, 42), ADDI(3, 0, 7)>>

\* an environment call and a trap return, each followed by younger instructions
ProgEcall == <<ADDI(1, 0, 5), ECALL, ADDI(2, 0, 42), ADDI(3, 0, 7)>>

ProgMret == <<ADDI(1, 0, 5), MRET, ADDI(2, 0, 42), ADDI(3, 0, 7)>>

\* an OP-IMM whose immediate bits 24:20 spell the rd of the instruction before it
ProgImmAlias == <<ADDI(1, 0, 5), ADDI(2, 0, 1), ADDI(3, 0, 7)>>

\* a write of x1 to the CSR mie (0x304) right behind the instruction that sets x1
ProgCsrHazard == <<ADDI(1, 0, 5), CSRRW(0, 772, 1), ADDI(3, 0, 7)>>

\* an environment call and a trap return in the two slots behind a taken branch
ProgShadowEcall == <<BEQ(0, 0, 12), ECALL, MRET, ADDI(3, 0, 7)>>

ProgShadowMret == <<BEQ(0, 0, 12), ADDI(2, 0, 42), MRET, ADDI(3, 0, 7)>>

Bodies ==
    SeqsOf(InstSet, BodyLen)
    \cup {ProgBranchFlush, ProgLoadUse, ProgAddiChain, ProgJalr, ProgEcall, ProgMret,
          ProgImmAlias, ProgCsrHazard, ProgShadowEcall, ProgShadowMret}

\* the endless-loop scenario of the design document: jal x0, 0 at address 0
ProgEndlessLoop == <<JAL(0, 0)>>

Programs == {b \o Pad \o EndLoop : b \in Bodies} \cup {ProgEndlessLoop}

----------------------------------------------------------------------------
(* Reference: the same program executed one instruction at a time *)

SeqInit ==
    [pc |-> 0, regf |-> [r \in RegIdx |-> 0], dmem |-> [a \in DataAddrs |-> 9],
     csr |-> CSRReset]

\* The decode, the EX result and the exception unit's outputs are each bound
\* once, as the values the one instruction produces.
SeqStep(p, s) ==
    LET fd == [inst |-> Fetch(p, s.pc), pc |-> s.pc]
        after(e, x) ==
            [pc |-> BranchUnit(s.pc, x.raise_exception, x.npc, x.trap_return, x.npc,
                               e.take_branch, e.alu_res),
             regf |-> RegfileWrite(s.regf, MEMStage(e, s.dmem)),
             dmem |-> MemWrite(s.dmem, e),
             csr |-> CSRUnitWrite(s.csr, x)]
    IN  CHOOSE r \in UNION {UNION {{after(e, x)
                     : x \in {ExceptionUnit(s.pc, ecall_o(fd), mret_o(fd), s.csr)}}
                     : e \in {EXStage(d)}}
                     : d \in {Decode(fd, s.regf)}} : TRUE

\* address of the endless loop that ends program p
LoopPC(p) == IF p = ProgEndlessLoop THEN 0 ELSE 4 * (Len(p) - Len(EndLoop))

RECURSIVE SeqRun(_, _, _)
SeqRun(p, s, n) ==
    IF n = 0 \/ s.pc >= LoopPC(p) THEN s ELSE SeqRun(p, SeqStep(p, s), n - 1)

SeqFinal(p) == SeqRun(p, SeqInit, Len(p))

\* address of the next instruction in the order of execution of the program:
\* the pc of the sequential machine that has executed the instructions that
\* entered EX in order so far
ExpectedEX == prev.seq.pc

----------------------------------------------------------------------------
(* Simulator: reset state, settle pass and clock edge *)

Modules == {"hazard", "connects", "ifid_reg", "idex_reg", "exmem_reg", "memwb_reg"}

\* ID/EX holds a fetched instruction latched from IF/ID at the last clock edge
EnteredEX ==
    /\ prev.valid /\ ~prev.hz.stall_ifid /\ ~prev.hz.flush_idex
    /\ prev.ifid.pc >= 0

Snapshot ==
    [valid |-> TRUE, pc |-> pc, ifid |-> ifid, idex |-> idex, exmem |-> exmem,
     memwb |-> memwb, hz |-> hz, take_branch |-> take_branch, alu_res |-> alu_res,
     flush_memwb |-> memwb_flush_i, ex_taken |-> EXStage(idex).take_branch,
     regf |-> regf, dmem |-> dmem, csr |-> csr,
     held |-> IF prev.valid /\ prev.hz.stall_ifid /\ ~prev.hz.flush_ifid
              THEN prev.held + 1 ELSE 0,
     br_age |-> IF EXStage(idex).take_branch THEN 0
                ELSE IF prev.br_age \in 0..1 THEN prev.br_age + 1 ELSE -1,
     br_target |-> IF EXStage(idex).take_branch THEN EXStage(idex).alu_res
                   ELSE prev.br_target,
     straight |-> prev.valid => (prev.straight /\ ~prev.hz.stall_pc /\ ~prev.take_branch
                                 /\ ~ecall_o(prev.ifid) /\ ~mret_o(prev.ifid)),
     seq |-> IF EnteredEX /\ idex.pc = ExpectedEX
             THEN SeqRun(prog, prev.seq, 1) ELSE prev.seq]

NoSnapshot ==
    [valid |-> FALSE, pc |-> -4, ifid |-> IFIDBubble, idex |-> IDEXBubble,
     exmem |-> EXMEMBubble, memwb |-> MEMWBBubble, hz |-> HazardIdle,
     take_branch |-> FALSE, alu_res |-> 0, flush_memwb |-> FALSE, ex_taken |-> FALSE,
     regf |-> [r \in RegIdx |-> 0], dmem |-> [a \in DataAddrs |-> 9],
     csr |-> CSRReset, held |-> 0,
     br_age |-> -1, br_target |-> 0, straight |-> TRUE, seq |-> SeqInit]

\* state after construction and load_instructions(p)
\* the viewer's observable state of the simulator (the content of
\* _snapshot_state): nothing before a model is loaded, and two values after
NoView == -1

ResetView == 0

Views == {0, 1}

\* None
NoneSnapshot == -2

\* PipelinedGUI.__init__, with every button but Compile & Load and Clear Logs
\* disabled and no callback waiting
NoViewer ==
    [model |-> FALSE, running |-> FALSE, run_job |-> FALSE, run_n_remaining |-> 0,
     prev_snapshot |-> NoneSnapshot, stable_count |-> 0,
     step_btn |-> "disabled", run_btn |-> "disabled", run_btn_text |-> "Run",
     run_n_btn |-> "disabled", run_n_command |-> "run_n_cycles",
     reset_btn |-> "disabled",
     view |-> NoView,
     job_waiting |-> FALSE, orphans |-> 0, n_waiting |-> 0,
     stepped_by |-> "none", stepped_in_run_n |-> FALSE,
     n |-> 0, n_steps |-> 0, n_interrupted |-> FALSE,
     last_snapshot |-> NoneSnapshot, consecutive |-> 0, stopped_by |-> "none"]

InitRegisters(P) ==
    /\ prog \in P
    /\ gui = NoViewer
    /\ loaded = [image |-> prog, raised |-> "none"]
    /\ pc = -4 /\ pc_next = -4
    /\ ifid = IFIDBubble /\ ifid_next = IFIDBubble
    /\ idex = IDEXBubble /\ idex_next = IDEXBubble
    /\ exmem = EXMEMBubble /\ exmem_next = EXMEMBubble
    /\ memwb = MEMWBBubble /\ memwb_next = MEMWBBubble
    /\ regf = [r \in RegIdx |-> 0]
    /\ csr = CSRReset
    /\ dmem = [a \in DataAddrs |-> 9]
    /\ hz = HazardIdle
    /\ take_branch = FALSE
    /\ alu_res = 0
    /\ memwb_flush_i = const_false
    /\ cyc = 0
    /\ prev = NoSnapshot

\* no call of the disassembler yet
NoDisassembly == [inst |-> NOP, returned |-> FALSE, mnemonic |-> "", text |-> [fmt |-> "", args |-> <<>>]]

InitWith(P) == InitRegisters(P) /\ pending = Modules /\ disasm = NoDisassembly

Init == InitWith(Programs)

\* clock edge: every Reg copies next into current; regfile and memory writes commit
Commit(pcn, fdn, dxn, xmn, mwn) ==
    /\ pc' = pcn /\ pc_next' = pcn
    /\ ifid' = fdn /\ ifid_next' = fdn
    /\ idex' = dxn /\ idex_next' = dxn
    /\ exmem' = xmn /\ exmem_next' = xmn
    /\ memwb' = mwn /\ memwb_next' = mwn
    /\ regf' = RegfileWrite(regf, memwb)
    /\ csr' = CSRUnitWrite(csr, Excep)
    /\ dmem' = MemWrite(dmem, exmem)
    /\ cyc' = cyc + 1

\* one step() with the settle pass in the order hazard, connects, hazard,
\* connects, pipeline registers
Step ==
    /\ cyc < MaxCycles
    /\ LET hz1 == HazardProcess(ifid, idex, exmem, take_branch)
           pcn1 == ConnectsPcNext(hz1.stall_pc, Npc(take_branch, alu_res), pc_next)
           tb1 == exmem.take_branch
           alu1 == exmem.alu_res
           hz2 == HazardProcess(ifid, idex, exmem, tb1)
           pcn2 == ConnectsPcNext(hz2.stall_pc, Npc(tb1, alu1), pcn1)
       IN  /\ hz' = hz2
           /\ take_branch' = tb1
           /\ alu_res' = alu1
           /\ prev' = [Snapshot EXCEPT !.hz = hz2, !.take_branch = tb1, !.alu_res = alu1]
           /\ Commit(pcn2,
                     IFIDRegProcess(hz2.stall_ifid, hz2.flush_ifid, IFStage, ifid_next),
                     IDEXRegProcess(hz2.stall_idex, hz2.flush_idex, IDStage, idex_next),
                     EXMEMRegProcess(hz2.stall_exmem, hz2.flush_exmem, EXStage(idex),
                                     exmem_next),
                     MEMWBRegProcess(hz2.stall_memwb, memwb_flush_i,
                                     MEMStage(exmem, dmem), memwb_next))
    /\ UNCHANGED <<prog, loaded, disasm, gui, pending, memwb_flush_i>>

Next == Step

Spec == Init /\ [][Next]_vars

\* the simulator keeps stepping: run() calls step() until the cycle bound
FairBodies ==
    SeqsOf(InstSet, FairBodyLen) \cup {ProgBranchFlush, ProgLoadUse, ProgAddiChain, ProgJalr}

InitFair == InitWith({b \o Pad \o EndLoop : b \in FairBodies})

SpecFair == InitFair /\ [][Next]_vars /\ WF_vars(Step)

----------------------------------------------------------------------------
(* step(), reset() and load_instructions() in any sequence *)

\* a program that names x0 as destination
ProgWriteX0 == <<ADDI(1, 0, 5), ADDI(0, 0, 7), ADD(2, 0, 1)>>

ResetPrograms == {b \o Pad \o EndLoop : b \in {ProgAddiChain, ProgLoadUse, ProgWriteX0}}

InitReset == InitWith(ResetPrograms)

\* step() while fewer than MaxResetCycles cycles have run since the last reset
StepBounded == cyc < MaxResetCycles /\ Step

\* reset(): every Reg back to its reset value, ports cleared, cycle counter
\* zeroed, register file reinitialised; memory keeps its contents
Reset ==
    /\ pc' = -4 /\ pc_next' = -4
    /\ ifid' = IFIDBubble /\ ifid_next' = IFIDBubble
    /\ idex' = IDEXBubble /\ idex_next' = IDEXBubble
    /\ exmem' = EXMEMBubble /\ exmem_next' = EXMEMBubble
    /\ memwb' = MEMWBBubble /\ memwb_next' = MEMWBBubble
    /\ regf' = [r \in RegIdx |-> 0]
    /\ csr' = CSRReset
    /\ hz' = HazardIdle
    /\ take_branch' = FALSE
    /\ alu_res' = 0
    /\ cyc' = 0
    /\ prev' = NoSnapshot
    /\ UNCHANGED <<prog, loaded, disasm, gui, dmem, memwb_flush_i, pending>>

\* mem[:len(img)] = img on a Python list: the first len(img) cells are replaced
\* by img, and a list shorter than img grows to the length of img
SliceAssign(m, img) == img \o SubSeq(m, Len(img) + 1, Len(m))

\* load_instructions(p): the words of p replace the memory from address 0
LoadInstructions ==
    /\ \E p \in ResetPrograms :
         /\ prog' = SliceAssign(prog, p) /\ prog' # prog
         /\ loaded' = [image |-> p, raised |-> "none"]
    /\ UNCHANGED <<disasm, gui, pc, pc_next, ifid, ifid_next, idex, idex_next, exmem, exmem_next,
                   memwb, memwb_next, regf, csr, dmem, hz, take_branch, alu_res,
                   memwb_flush_i, pending, cyc, prev>>

NextReset ==
    \/ StepBounded
    \/ Reset
    \/ LoadInstructions

SpecReset == InitReset /\ [][NextReset]_vars

----------------------------------------------------------------------------
(* load_binary() and load_instructions() on a memory of MemSize cells, with
   images up to one cell longer than the memory *)

Cells == {0, 19}

Images == UNION {SeqsOf(Cells, n) : n \in 0..(MemSize + 1)}

InitLoad == InitWith({[i \in 1..MemSize |-> 0]})

\* load_binary(file): the bytes of the file replace the memory from address 0
LoadBinary ==
    /\ \E inst \in Images :
         /\ prog' = SliceAssign(prog, inst)
         /\ loaded' = [image |-> inst, raised |-> "none"]
    /\ UNCHANGED <<disasm, gui, pc, pc_next, ifid, ifid_next, idex, idex_next, exmem, exmem_next,
                   memwb, memwb_next, regf, csr, dmem, hz, take_branch, alu_res,
                   memwb_flush_i, pending, cyc, prev>>

\* load_instructions(instructions) with an image of any length
LoadInstructionsAny ==
    /\ \E instructions \in Images :
         /\ prog' = SliceAssign(prog, instructions)
         /\ loaded' = [image |-> instructions, raised |-> "none"]
    /\ UNCHANGED <<disasm, gui, pc, pc_next, ifid, ifid_next, idex, idex_next, exmem, exmem_next,
                   memwb, memwb_next, regf, csr, dmem, hz, take_branch, alu_res,
                   memwb_flush_i, pending, cyc, prev>>

NextLoad ==
    \/ LoadBinary
    \/ LoadInstructionsAny

SpecLoad == InitLoad /\ [][NextLoad]_vars

----------------------------------------------------------------------------
(* Disassembler.disassemble applied to one instruction word *)


\* the pair returned for a mnemonic with its operands
Dis(mnemonic, fmt, args) == [mnemonic |-> mnemonic, text |-> [fmt |-> fmt, args |-> args]]

\* the last return statement of disassemble
DisUnknown(inst) == Dis("UNKNOWN", "unknown instruction (0x%08x)", <<inst>>)

\* a name chosen by funct3 from table t, UNKNOWN when t has no entry for it
DisByFunct3(inst, t, fmt, args) ==
    IF inst.funct3 \in DOMAIN t THEN Dis(t[inst.funct3], fmt, args) ELSE DisUnknown(inst)

disassemble(inst) ==
    LET opcode == inst.opcode
        funct3 == inst.funct3
        funct7 == inst.funct7
        rd == inst.rd
        rs1 == inst.rs1
        rs2 == inst.rs2
        imm_signed == decode_imm(inst)
        shamt == inst.rs2
        csr_addr == inst.funct7 * 32 + inst.rs2
    IN  IF inst = NOP THEN Dis("NOP", "nop (addi x0, x0, 0)", <<>>)
        ELSE IF inst = ECALL THEN Dis("ECALL", "ecall", <<>>)
        ELSE IF inst = MRET THEN Dis("MRET", "mret", <<>>)
        ELSE IF inst.low2 # 3 THEN Dis("INVALID", "invalid instruction (0x%08x)", <<inst>>)
        ELSE IF opcode = OPCODES.OP
        THEN IF funct7 = 0
             THEN DisByFunct3(inst, [f \in 0..7 |-> <<"ADD", "SLL", "SLT", "SLTU", "XOR", "SRL",
                                                    "OR", "AND">>[f + 1]],
                              "%s rd, rs1, rs2", <<rd, rs1, rs2>>)
             ELSE IF funct7 = 32
             THEN DisByFunct3(inst, [f \in {0, 5} |-> IF f = 0 THEN "SUB" ELSE "SRA"],
                              "%s rd, rs1, rs2", <<rd, rs1, rs2>>)
             ELSE DisUnknown(inst)
        ELSE IF opcode = OPCODES.OPIMM
        THEN IF funct3 \in {0, 2, 3, 4, 6, 7}
             THEN Dis(<<"ADDI", "", "SLTI", "SLTIU", "XORI", "", "ORI", "ANDI">>[funct3 + 1],
                      "%s rd, rs1, imm", <<rd, rs1, imm_signed>>)
             ELSE IF funct3 = 1 THEN Dis("SLLI", "%s rd, rs1, shamt", <<rd, rs1, shamt>>)
             ELSE IF funct7 = 0 THEN Dis("SRLI", "%s rd, rs1, shamt", <<rd, rs1, shamt>>)
             ELSE IF funct7 = 32 THEN Dis("SRAI", "%s rd, rs1, shamt", <<rd, rs1, shamt>>)
             ELSE DisUnknown(inst)
        ELSE IF opcode = OPCODES.LOAD
        THEN DisByFunct3(inst, [f \in {0, 1, 2, 4, 5} |->
                                  <<"LB", "LH", "LW", "", "LBU", "LHU">>[f + 1]],
                         "%s rd, imm(rs1)", <<rd, imm_signed, rs1>>)
        ELSE IF opcode = OPCODES.STORE
        THEN DisByFunct3(inst, [f \in 0..2 |-> <<"SB", "SH", "SW">>[f + 1]],
                         "%s rs2, imm(rs1)", <<rs2, imm_signed, rs1>>)
        ELSE IF opcode = OPCODES.BRANCH
        THEN DisByFunct3(inst, [f \in {0, 1, 4, 5, 6, 7} |->
                                  <<"BEQ", "BNE", "", "", "BLT", "BGE", "BLTU", "BGEU">>[f + 1]],
                         "%s rs1, rs2, imm", <<rs1, rs2, imm_signed>>)
        ELSE IF opcode = OPCODES.JAL THEN Dis("JAL", "jal rd, imm", <<rd, imm_signed>>)
        ELSE IF opcode = OPCODES.JALR
        THEN Dis("JALR", "jalr rd, rs1, imm", <<rd, rs1, imm_signed>>)
        ELSE IF opcode = OPCODES.LUI THEN Dis("LUI", "lui rd, imm >> 12", <<rd, imm_signed \div 4096>>)
        ELSE IF opcode = OPCODES.AUIPC
        THEN Dis("AUIPC", "auipc rd, imm >> 12", <<rd, imm_signed \div 4096>>)
        ELSE IF opcode = OPCODES.SYSTEM
        THEN DisByFunct3(inst, [f \in {1, 2, 3, 5, 6, 7} |->
                                  <<"CSRRW", "CSRRS", "CSRRC", "", "CSRRWI", "CSRRSI",
                                    "CSRRCI">>[f]],
                         "%s rd, csr, rs1", <<rd, csr_addr, rs1>>)
        ELSE DisUnknown(inst)

\* instruction words to disassemble: every funct3 with three values of funct7
\* under the ten opcodes and one unassigned opcode, with low bits 11 and 01, and
\* the three words compared first
DisasmWords ==
    {[low2 |-> l, opcode |-> o, rd |-> 1, funct3 |-> f3, rs1 |-> 2, rs2 |-> 3, funct7 |-> f7] :
        l \in {1, 3}, o \in {0, 4, 5, 8, 12, 13, 24, 25, 27, 28, 1}, f3 \in 0..7,
        f7 \in {0, 32, 1}}
    \cup {NOP, ECALL, MRET}

InitDisasm ==
    /\ InitRegisters({Pad \o EndLoop})
    /\ pending = Modules
    /\ \E w \in DisasmWords : disasm = [NoDisassembly EXCEPT !.inst = w]

Disassemble ==
    /\ ~disasm.returned
    /\ disasm' = [inst |-> disasm.inst, returned |-> TRUE,
                  mnemonic |-> disassemble(disasm.inst).mnemonic,
                  text |-> disassemble(disasm.inst).text]
    /\ UNCHANGED <<prog, loaded, gui, pc, pc_next, ifid, ifid_next, idex, idex_next, exmem,
                   exmem_next, memwb, memwb_next, regf, csr, dmem, hz, take_branch,
                   alu_res, memwb_flush_i, pending, cyc, prev>>

NextDisasm == Disassemble

SpecDisasm == InitDisasm /\ [][NextDisasm]_vars

----------------------------------------------------------------------------
(* One pipeline register at a time, driven with arbitrary stall, flush and
   data inputs; process may be evaluated several times before the clock edge *)

RegModules == {"ifid_reg", "idex_reg", "exmem_reg", "memwb_reg"}

IFIDInputs == {[inst |-> ADDI(1, 0, 5), pc |-> 0], [inst |-> LW(1, 0, 64), pc |-> 4]}

IDEXInputs == {Decode(x, [r \in RegIdx |-> 0]) : x \in IFIDInputs}

EXMEMInputs == {EXStage(x) : x \in IDEXInputs}

MEMWBInputs == {MEMStage(x, [a \in DataAddrs |-> 9]) : x \in EXMEMInputs}

InitRegs ==
    /\ InitRegisters({Pad \o EndLoop})
    /\ disasm = NoDisassembly
    /\ \E m \in RegModules : pending = {m}

DriveIFID ==
    /\ pending = {"ifid_reg"}
    /\ \E st \in BOOLEAN, fl \in BOOLEAN, in \in IFIDInputs :
         /\ hz' = [hz EXCEPT !.stall_ifid = st, !.flush_ifid = fl]
         /\ ifid_next' = IFIDRegProcess(st, fl, in, ifid_next)
    /\ UNCHANGED <<prog, loaded, disasm, gui, csr, pc, pc_next, ifid, idex, idex_next, exmem, exmem_next,
                   memwb, memwb_next, regf, dmem, take_branch, alu_res,
                   memwb_flush_i, pending, cyc, prev>>

DriveIDEX ==
    /\ pending = {"idex_reg"}
    /\ \E st \in BOOLEAN, fl \in BOOLEAN, in \in IDEXInputs :
         /\ hz' = [hz EXCEPT !.stall_idex = st, !.flush_idex = fl]
         /\ idex_next' = IDEXRegProcess(st, fl, in, idex_next)
    /\ UNCHANGED <<prog, loaded, disasm, gui, csr, pc, pc_next, ifid, ifid_next, idex, exmem, exmem_next,
                   memwb, memwb_next, regf, dmem, take_branch, alu_res,
                   memwb_flush_i, pending, cyc, prev>>

DriveEXMEM ==
    /\ pending = {"exmem_reg"}
    /\ \E st \in BOOLEAN, fl \in BOOLEAN, in \in EXMEMInputs :
         /\ hz' = [hz EXCEPT !.stall_exmem = st, !.flush_exmem = fl]
         /\ exmem_next' = EXMEMRegProcess(st, fl, in, exmem_next)
    /\ UNCHANGED <<prog, loaded, disasm, gui, csr, pc, pc_next, ifid, ifid_next, idex, idex_next, exmem,
                   memwb, memwb_next, regf, dmem, take_branch, alu_res,
                   memwb_flush_i, pending, cyc, prev>>

DriveMEMWB ==
    /\ pending = {"memwb_reg"}
    /\ \E st \in BOOLEAN, fl \in BOOLEAN, in \in MEMWBInputs :
         /\ hz' = [hz EXCEPT !.stall_memwb = st]
         /\ memwb_flush_i' = fl
         /\ memwb_next' = MEMWBRegProcess(st, fl, in, memwb_next)
    /\ UNCHANGED <<prog, loaded, disasm, gui, csr, pc, pc_next, ifid, ifid_next, idex, idex_next, exmem,
                   exmem_next, memwb, regf, dmem, take_branch, alu_res,
                   pending, cyc, prev>>

\* clock edge of the four pipeline registers
RegsTick ==
    /\ cyc < MaxRegCycles
    /\ prev' = Snapshot
    /\ ifid' = ifid_next
    /\ idex' = idex_next
    /\ exmem' = exmem_next
    /\ memwb' = memwb_next
    /\ cyc' = cyc + 1
    /\ UNCHANGED <<prog, loaded, disasm, gui, csr, pc, pc_next, ifid_next, idex_next, exmem_next, memwb_next,
                   regf, dmem, hz, take_branch, alu_res, memwb_flush_i, pending>>

NextRegs ==
    \/ DriveIFID
    \/ DriveIDEX
    \/ DriveEXMEM
    \/ DriveMEMWB
    \/ RegsTick

SpecRegs == InitRegs /\ [][NextRegs]_vars

----------------------------------------------------------------------------
(* Drained pipeline *)

\* the pipeline holds nothing but the endless loop, its padding and bubbles
Drained ==
    /\ pc >= LoopPC(prog)
    /\ ifid.pc = -4 \/ ifid.pc >= LoopPC(prog)
    /\ \/ idex.pc >= LoopPC(prog)
       \/ /\ idex.we => idex.rd = 0
          /\ idex.mem = 0
          /\ idex.opcode \notin {OPCODES.BRANCH, OPCODES.JAL, OPCODES.JALR}
    /\ \/ exmem.pc4 - 4 >= LoopPC(prog)
       \/ (exmem.we => exmem.rd = 0) /\ exmem.mem = 0 /\ ~exmem.take_branch
    /\ \/ memwb.pc4 - 4 >= LoopPC(prog)
       \/ memwb.we => memwb.rd = 0

----------------------------------------------------------------------------
(* Settle pass with the modules evaluated one at a time from a work queue *)

\* a small set of programs for the exploration of settle orders
SettleBodies ==
    { <<ADDI(1, 0, 5), ADDI(2, 1, 7), ADD(3, 1, 2)>>,
      <<BEQ(0, 0, 8), ADDI(1, 0, 5), ADDI(2, 1, 7)>>,
      <<LW(1, 0, 64), ADD(3, 0, 1), SW(1, 0, 64)>>,
      <<JAL(2, 8), SW(1, 0, 64), ADD(3, 1, 2)>>,
      <<ADDI(1, 0, 5), BNE(1, 0, 8), LW(1, 0, 64)>> }

SettlePrograms == {b \o Pad \o EndLoop : b \in SettleBodies}

InitSettle == InitWith(SettlePrograms)

\* modules to re-evaluate when the hazard unit's outputs change from h to g
HazardReaders(h, g) ==
    (IF h.stall_ifid # g.stall_ifid \/ h.flush_ifid # g.flush_ifid
     THEN {"ifid_reg"} ELSE {})
    \cup (IF h.stall_idex # g.stall_idex \/ h.flush_idex # g.flush_idex
          THEN {"idex_reg"} ELSE {})
    \cup (IF h.stall_exmem # g.stall_exmem \/ h.flush_exmem # g.flush_exmem
          THEN {"exmem_reg"} ELSE {})
    \cup (IF h.stall_memwb # g.stall_memwb THEN {"memwb_reg"} ELSE {})

EvalHazard ==
    /\ "hazard" \in pending
    /\ hz' = HazardProcess(ifid, idex, exmem, take_branch)
    /\ pending' = (pending \ {"hazard"}) \cup HazardReaders(hz, hz')
    /\ UNCHANGED <<prog, loaded, disasm, gui, csr, pc, pc_next, ifid, ifid_next, idex, idex_next, exmem,
                   exmem_next, memwb, memwb_next, regf, dmem, take_branch, alu_res,
                   memwb_flush_i, cyc, prev>>

\* the wires take_branch and alu_res call connects when they change; take_branch
\* also feeds the hazard unit and the branch unit
EvalConnects ==
    /\ "connects" \in pending
    /\ pc_next' = ConnectsPcNext(hz.stall_pc, Npc(take_branch, alu_res), pc_next)
    /\ take_branch' = exmem.take_branch
    /\ alu_res' = exmem.alu_res
    /\ pending' = (pending \ {"connects"})
                  \cup (IF take_branch' # take_branch THEN {"connects", "hazard"} ELSE {})
                  \cup (IF alu_res' # alu_res THEN {"connects"} ELSE {})
    /\ UNCHANGED <<prog, loaded, disasm, gui, csr, pc, ifid, ifid_next, idex, idex_next, exmem, exmem_next,
                   memwb, memwb_next, regf, dmem, hz, memwb_flush_i, cyc, prev>>

EvalIFID ==
    /\ "ifid_reg" \in pending
    /\ ifid_next' = IFIDRegProcess(hz.stall_ifid, hz.flush_ifid, IFStage, ifid_next)
    /\ pending' = pending \ {"ifid_reg"}
    /\ UNCHANGED <<prog, loaded, disasm, gui, csr, pc, pc_next, ifid, idex, idex_next, exmem, exmem_next,
                   memwb, memwb_next, regf, dmem, hz, take_branch, alu_res, memwb_flush_i,
                   cyc, prev>>

EvalIDEX ==
    /\ "idex_reg" \in pending
    /\ idex_next' = IDEXRegProcess(hz.stall_idex, hz.flush_idex, IDStage, idex_next)
    /\ pending' = pending \ {"idex_reg"}
    /\ UNCHANGED <<prog, loaded, disasm, gui, csr, pc, pc_next, ifid, ifid_next, idex, exmem, exmem_next,
                   memwb, memwb_next, regf, dmem, hz, take_branch, alu_res, memwb_flush_i,
                   cyc, prev>>

EvalEXMEM ==
    /\ "exmem_reg" \in pending
    /\ exmem_next' = EXMEMRegProcess(hz.stall_exmem, hz.flush_exmem, EXStage(idex),
                                     exmem_next)
    /\ pending' = pending \ {"exmem_reg"}
    /\ UNCHANGED <<prog, loaded, disasm, gui, csr, pc, pc_next, ifid, ifid_next, idex, idex_next, exmem,
                   memwb, memwb_next, regf, dmem, hz, take_branch, alu_res, memwb_flush_i,
                   cyc, prev>>

EvalMEMWB ==
    /\ "memwb_reg" \in pending
    /\ memwb_next' = MEMWBRegProcess(hz.stall_memwb, memwb_flush_i,
                                     MEMStage(exmem, dmem), memwb_next)
    /\ pending' = pending \ {"memwb_reg"}
    /\ UNCHANGED <<prog, loaded, disasm, gui, csr, pc, pc_next, ifid, ifid_next, idex, idex_next, exmem,
                   exmem_next, memwb, regf, dmem, hz, take_branch, alu_res, memwb_flush_i,
                   cyc, prev>>

\* clock edge once the work queue is empty
Tick ==
    /\ pending = {}
    /\ cyc < MaxSettleCycles
    /\ prev' = Snapshot
    /\ Commit(pc_next, ifid_next, idex_next, exmem_next, memwb_next)
    /\ pending' = Modules
    /\ UNCHANGED <<prog, loaded, disasm, gui, hz, take_branch, alu_res, memwb_flush_i>>

NextSettle ==
    \/ EvalHazard
    \/ EvalConnects
    \/ EvalIFID
    \/ EvalIDEX
    \/ EvalEXMEM
    \/ EvalMEMWB
    \/ Tick

SpecSettle == InitSettle /\ [][NextSettle]_vars

----------------------------------------------------------------------------
(* Viewer: the handlers of PipelinedGUI, each run to completion by the event
   loop.  A call of sim.step() is represented by its outcome: whether it
   raised, the observable state it left and whether the pipeline then looks
   empty to _handle_post_step. *)

_stable_threshold == 6

_snapshot_state(g) == g.view

\* _format_diff returns a non-empty list
_format_diff(before, cur) == before = NoneSnapshot \/ before # cur

\* the start of a callback: nothing stepped or stopped in it yet
Cleared(g) ==
    [g EXCEPT !.stepped_by = "none", !.stepped_in_run_n = FALSE, !.stopped_by = "none"]

\* a successful sim.step() called by handler by, leaving the observable state v
Stepped(g, by, v) ==
    [g EXCEPT !.view = v,
              !.stepped_by = by,
              !.stepped_in_run_n = g.run_n_remaining > 0,
              !.n_steps = IF by = "_run_n_step" THEN @ + 1 ELSE @,
              !.consecutive = IF g.last_snapshot = v THEN @ + 1 ELSE 0,
              !.last_snapshot = v]

\* the two stop blocks of _handle_post_step
StopExecution(g, why) ==
    [g EXCEPT !.running = FALSE,
              !.run_btn_text = IF g.running THEN "Run" ELSE @,
              !.run_n_remaining = 0,
              !.run_n_command = IF g.run_n_remaining # 0 THEN "run_n_cycles" ELSE @,
              !.n_interrupted = @ \/ g.run_n_remaining # 0,
              !.stopped_by = IF g.running \/ g.run_n_remaining # 0 THEN why ELSE @]

\* _handle_post_step with the stability test strict
_handle_post_step_StrictThreshold(g, pipeline_empty) ==
    LET cur == _snapshot_state(g)
        diffs == _format_diff(g.prev_snapshot, cur)
        counted == [g EXCEPT !.stable_count = IF diffs THEN 0 ELSE @ + 1,
                             !.prev_snapshot = cur]
    IN  IF pipeline_empty THEN StopExecution(counted, "empty")
        ELSE IF counted.stable_count > _stable_threshold
        THEN StopExecution(counted, "stable")
        ELSE counted

_handle_post_step(g, pipeline_empty) ==
    LET cur == _snapshot_state(g)
        diffs == _format_diff(g.prev_snapshot, cur)
        counted == [g EXCEPT !.stable_count = IF diffs THEN 0 ELSE @ + 1,
                             !.prev_snapshot = cur]
    IN  IF pipeline_empty THEN StopExecution(counted, "empty")
        ELSE IF counted.stable_count >= _stable_threshold
        THEN StopExecution(counted, "stable")
        ELSE counted

\* the except block of step_cycle and of run_loop
StepError(g) ==
    [g EXCEPT !.running = FALSE, !.run_btn_text = "Run",
              !.stopped_by = IF g.running THEN "error" ELSE @]

step_cycle(g, raised, v, pipeline_empty) ==
    IF ~g.model THEN g
    ELSE IF raised THEN StepError(g)
    ELSE _handle_post_step(Stepped(g, "step_cycle", v), pipeline_empty)

\* self._run_job = self.after(10, self.run_loop): the callback the attribute
\* named before stays in the event loop
AfterRunLoop(g) ==
    [g EXCEPT !.run_job = TRUE, !.job_waiting = TRUE,
              !.orphans = IF g.job_waiting THEN @ + 1 ELSE @]

run_loop(g, raised, v, pipeline_empty) ==
    IF ~g.running \/ ~g.model THEN g
    ELSE IF raised THEN StepError(g)
    ELSE LET h == _handle_post_step(Stepped(g, "run_loop", v), pipeline_empty)
         IN  IF ~h.running THEN h ELSE AfterRunLoop(h)

toggle_run(g, raised, v, pipeline_empty) ==
    IF ~g.model THEN g
    ELSE IF ~g.running
    THEN run_loop([g EXCEPT !.running = TRUE, !.run_btn_text = "Stop"],
                  raised, v, pipeline_empty)
    ELSE [g EXCEPT !.running = FALSE, !.run_btn_text = "Run",
                   !.job_waiting = IF g.run_job THEN FALSE ELSE @,
                   !.run_job = FALSE,
                   !.stopped_by = "user"]

run_n_cycles(g, n) ==
    IF ~g.model THEN g
    ELSE [g EXCEPT !.run_n_remaining = n,
                   !.step_btn = "disabled", !.run_btn = "disabled",
                   !.run_n_command = "stop_run_n",
                   !.n_waiting = @ + 1,
                   !.n = n, !.n_steps = 0, !.n_interrupted = FALSE]

\* the button and state restored at the end of a Run N
RestoreRunN(g) ==
    [g EXCEPT !.run_n_command = "run_n_cycles", !.step_btn = "normal", !.run_btn = "normal"]

\* _run_n_step without the decrement of the remaining count
_run_n_step_NoDecrement(g, raised, v, pipeline_empty) ==
    LET g0 == IF ~g.model THEN [g EXCEPT !.run_n_remaining = 0] ELSE g
    IN  IF g0.run_n_remaining <= 0 THEN RestoreRunN(g0)
        ELSE IF raised
        THEN RestoreRunN([g0 EXCEPT !.run_n_remaining = 0, !.n_interrupted = TRUE,
                                    !.stopped_by = "error"])
        ELSE LET h == _handle_post_step(Stepped(g0, "_run_n_step", v), pipeline_empty)
             IN  IF h.run_n_remaining <= 0 THEN RestoreRunN(h)
                 ELSE [h EXCEPT !.n_waiting = @ + 1]

_run_n_step(g, raised, v, pipeline_empty) ==
    LET g0 == IF ~g.model THEN [g EXCEPT !.run_n_remaining = 0] ELSE g
    IN  IF g0.run_n_remaining <= 0 THEN RestoreRunN(g0)
        ELSE IF raised
        THEN RestoreRunN([g0 EXCEPT !.run_n_remaining = 0, !.n_interrupted = TRUE,
                                    !.stopped_by = "error"])
        ELSE LET h == _handle_post_step(Stepped(g0, "_run_n_step", v), pipeline_empty)
             IN  IF h.run_n_remaining <= 0 THEN RestoreRunN(h)
                 ELSE [h EXCEPT !.run_n_remaining = @ - 1, !.n_waiting = @ + 1]

stop_run_n(g) ==
    RestoreRunN([g EXCEPT !.run_n_remaining = 0, !.n_interrupted = TRUE,
                          !.stopped_by = "user"])

\* compile_and_load with compilation and loading succeeding: a new model, reset
compile_and_load(g) ==
    [g EXCEPT !.model = TRUE, !.view = ResetView,
              !.prev_snapshot = ResetView, !.stable_count = 0,
              !.step_btn = "normal", !.run_btn = "normal", !.run_n_btn = "normal",
              !.reset_btn = "normal",
              !.last_snapshot = ResetView, !.consecutive = 0]

reset_model(g) == IF ~g.model THEN g ELSE [g EXCEPT !.view = ResetView]

clear_logs(g) ==
    [g EXCEPT !.prev_snapshot = _snapshot_state(g), !.stable_count = 0,
              !.last_snapshot = g.view, !.consecutive = 0]

\* run_loop callbacks waiting in the event loop
RunLoopsWaiting == (IF gui.job_waiting THEN 1 ELSE 0) + gui.orphans

simvars == <<prog, loaded, disasm, pc, pc_next, ifid, ifid_next, idex, idex_next, exmem, exmem_next, memwb, memwb_next, regf, csr, dmem, hz, take_branch, alu_res, memwb_flush_i, pending, cyc, prev>>

InitViewer == InitWith({Pad \o EndLoop})

PressCompileAndLoad ==
    /\ gui' = compile_and_load(Cleared(gui))
    /\ UNCHANGED simvars

PressStep ==
    /\ gui.step_btn = "normal"
    /\ gui.stable_count < MaxStable
    /\ \E raised \in BOOLEAN, v \in Views, pipeline_empty \in BOOLEAN :
         gui' = step_cycle(Cleared(gui), raised, v, pipeline_empty)
    /\ UNCHANGED simvars

PressRun ==
    /\ gui.run_btn = "normal"
    /\ gui.stable_count < MaxStable
    /\ gui.running \/ RunLoopsWaiting < MaxTimers
    /\ \E raised \in BOOLEAN, v \in Views, pipeline_empty \in BOOLEAN :
         gui' = toggle_run(Cleared(gui), raised, v, pipeline_empty)
    /\ UNCHANGED simvars

\* the event loop calls a waiting run_loop: the one _run_job names or another
RunLoopFires ==
    /\ gui.stable_count < MaxStable
    /\ \E raised \in BOOLEAN, v \in Views, pipeline_empty \in BOOLEAN :
         \/ /\ gui.job_waiting
            /\ gui' = run_loop([Cleared(gui) EXCEPT !.job_waiting = FALSE],
                               raised, v, pipeline_empty)
         \/ /\ gui.orphans > 0
            /\ gui' = run_loop([Cleared(gui) EXCEPT !.orphans = @ - 1],
                               raised, v, pipeline_empty)
    /\ UNCHANGED simvars

PressRunN ==
    /\ gui.run_n_btn = "normal" /\ gui.run_n_command = "run_n_cycles"
    /\ gui.n_waiting < MaxTimers
    /\ \E n \in 1..MaxN : gui' = run_n_cycles(Cleared(gui), n)
    /\ UNCHANGED simvars

PressStopN ==
    /\ gui.run_n_btn = "normal" /\ gui.run_n_command = "stop_run_n"
    /\ gui' = stop_run_n(Cleared(gui))
    /\ UNCHANGED simvars

\* the event loop calls a waiting _run_n_step
RunNStepFires ==
    /\ gui.n_waiting > 0
    /\ gui.stable_count < MaxStable
    /\ \E raised \in BOOLEAN, v \in Views, pipeline_empty \in BOOLEAN :
         gui' = _run_n_step([Cleared(gui) EXCEPT !.n_waiting = @ - 1],
                            raised, v, pipeline_empty)
    /\ UNCHANGED simvars

PressReset ==
    /\ gui.reset_btn = "normal"
    /\ gui' = reset_model(Cleared(gui))
    /\ UNCHANGED simvars

PressClearLogs ==
    /\ gui' = clear_logs(Cleared(gui))
    /\ UNCHANGED simvars

NextViewer ==
    \/ PressCompileAndLoad
    \/ PressStep
    \/ PressRun
    \/ RunLoopFires
    \/ PressRunN
    \/ PressStopN
    \/ RunNStepFires
    \/ PressReset
    \/ PressClearLogs

SpecViewer == InitViewer /\ [][NextViewer]_vars

----------------------------------------------------------------------------
(* Properties.  prev holds the registers of the previous cycle together with
   the signals it settled to; the current registers are those committed at
   the clock edge that ended it. *)

\* the opcodes that read rs1 and rs2, as the design document lists them
ReadsRs1 == {OPCODES.OP, OPCODES.OPIMM, OPCODES.LOAD, OPCODES.STORE,
             OPCODES.BRANCH, OPCODES.JALR}

ReadsRs2 == {OPCODES.OP, OPCODES.STORE, OPCODES.BRANCH}

\* instruction word inst reads register r
Reads(inst, r) ==
    \/ inst.opcode \in ReadsRs1 /\ inst.rs1 = r
    \/ inst.opcode \in ReadsRs2 /\ inst.rs2 = r

StallAsserted(h) == h.stall_pc /\ h.stall_ifid /\ h.flush_idex

\* C1: once the pipeline has drained, the register file and the data memory
\* equal those of executing the program one instruction at a time.
C1_PipelineEqualsSequential ==
    Drained => regf = SeqFinal(prog).regf /\ dmem = SeqFinal(prog).dmem

\* C2: whenever EX/MEM holds a record with we and rd # 0 that the IF/ID
\* instruction reads, the hazard unit asserts stall_pc, stall_ifid and
\* flush_idex, whatever ID/EX holds.
C2_ExMemHazardStalls ==
    (prev.valid /\ prev.exmem.we /\ prev.exmem.rd # 0
       /\ Reads(prev.ifid.inst, prev.exmem.rd))
    => StallAsserted(prev.hz)

\* C3: whenever ID/EX holds a LOAD with rd # 0 that the IF/ID instruction
\* reads as rs1 or rs2, the hazard unit asserts stall_pc, stall_ifid and
\* flush_idex together.
C3_LoadUseStalls ==
    (prev.valid /\ prev.idex.mem = 1 /\ prev.idex.rd # 0
       /\ Reads(prev.ifid.inst, prev.idex.rd))
    => StallAsserted(prev.hz)

\* a load-use stall in which the loaded register is read as rs2 only
C3_Witness ==
    /\ prev.valid /\ prev.idex.mem = 1 /\ prev.idex.rd # 0
    /\ Reads(prev.ifid.inst, prev.idex.rd)
    /\ prev.ifid.inst.rs1 # prev.idex.rd
    /\ StallAsserted(prev.hz)
    /\ ifid = prev.ifid /\ pc = prev.pc

\* C4: whenever ID/EX holds a non-load record with we and rd # 0 that the
\* IF/ID instruction reads, the hazard unit asserts stall_pc, stall_ifid and
\* flush_idex.
C4_ExStageHazardStalls ==
    (prev.valid /\ prev.idex.mem # 1 /\ prev.idex.we /\ prev.idex.rd # 0
       /\ Reads(prev.ifid.inst, prev.idex.rd))
    => StallAsserted(prev.hz)

\* a stall on a non-load producer in ID/EX
C4_Witness ==
    /\ prev.valid /\ prev.idex.mem # 1 /\ prev.idex.we /\ prev.idex.rd # 0
    /\ Reads(prev.ifid.inst, prev.idex.rd)
    /\ StallAsserted(prev.hz)
    /\ ifid = prev.ifid /\ idex = IDEXBubble

\* C5: whenever take_branch is asserted in a cycle, the PC register holds
\* the branch target alu_res in the next cycle, also under a stall.
C5_TakenBranchRedirectsPC ==
    (prev.valid /\ prev.take_branch) => pc = prev.alu_res

\* C6: in the taken-branch scenario the instructions in the shadow of the
\* branch have no effect and execution resumes: finally x2 = 0, x3 = 0, x4 = 7.
C6_BranchShadowFlushed ==
    (prog = ProgBranchFlush \o Pad \o EndLoop /\ Drained)
    => regf[2] = 0 /\ regf[3] = 0 /\ regf[4] = 7

\* C7: whenever take_branch is true, flush_ifid and flush_idex are asserted
\* and flush_exmem is not, and take_branch is the branch decision of the
\* instruction in the EX stage in that cycle.
C7_BranchFlushFromEX ==
    prev.valid =>
        /\ prev.take_branch => (prev.hz.flush_ifid /\ prev.hz.flush_idex
                                /\ ~prev.hz.flush_exmem)
        /\ prev.take_branch = prev.ex_taken

\* C8: a pipeline register whose flush input is true at the end of settling
\* holds the bubble of its type in the next cycle.
C8_FlushGivesBubble ==
    prev.valid =>
        /\ prev.hz.flush_ifid => ifid = IFIDBubble
        /\ prev.hz.flush_idex => idex = IDEXBubble
        /\ prev.hz.flush_exmem => exmem = EXMEMBubble
        /\ prev.flush_memwb => memwb = MEMWBBubble

\* a flushed register that held an instruction came out as a bubble, with the
\* stall input asserted or not
C8_Witness ==
    /\ prev.valid
    /\ \/ prev.hz.flush_exmem /\ prev.exmem # EXMEMBubble /\ exmem = EXMEMBubble
       \/ prev.flush_memwb /\ prev.memwb # MEMWBBubble /\ memwb = MEMWBBubble

\* C9: a pipeline register whose stall input is true and whose flush input is
\* false at the end of settling keeps its value, in every settling order.
C9_StallHolds ==
    prev.valid =>
        /\ (prev.hz.stall_ifid /\ ~prev.hz.flush_ifid) => ifid = prev.ifid
        /\ (prev.hz.stall_idex /\ ~prev.hz.flush_idex) => idex = prev.idex
        /\ (prev.hz.stall_exmem /\ ~prev.hz.flush_exmem) => exmem = prev.exmem
        /\ (prev.hz.stall_memwb /\ ~prev.flush_memwb) => memwb = prev.memwb

\* the values a settle pass has to commit, as a function of the committed state
SettledHazard == HazardProcess(ifid, idex, exmem, exmem.take_branch)

SettledNext ==
    [pc |-> IF SettledHazard.stall_pc THEN pc
            ELSE Npc(exmem.take_branch, exmem.alu_res),
     ifid |-> IF SettledHazard.flush_ifid THEN IFIDBubble
              ELSE IF SettledHazard.stall_ifid THEN ifid ELSE IFStage,
     idex |-> IF SettledHazard.flush_idex THEN IDEXBubble ELSE IDStage,
     exmem |-> EXStage(idex),
     memwb |-> MEMStage(exmem, dmem)]

\* C10: the values committed at the clock edge depend only on the committed
\* state at the start of the cycle, not on the order of evaluation.
C10_SettleOrderIrrelevant ==
    pending = {} =>
        /\ pc_next = SettledNext.pc
        /\ ifid_next = SettledNext.ifid
        /\ idex_next = SettledNext.idex
        /\ exmem_next = SettledNext.exmem
        /\ memwb_next = SettledNext.memwb

\* C11: a pipeline register whose flush and stall inputs are both true at the
\* end of settling holds the bubble in the next cycle, not the held value.
C11_FlushOverStall ==
    prev.valid =>
        /\ (prev.hz.flush_ifid /\ prev.hz.stall_ifid) => ifid = IFIDBubble
        /\ (prev.hz.flush_idex /\ prev.hz.stall_idex) => idex = IDEXBubble
        /\ (prev.hz.flush_exmem /\ prev.hz.stall_exmem) => exmem = EXMEMBubble
        /\ (prev.flush_memwb /\ prev.hz.stall_memwb) => memwb = MEMWBBubble

\* a taken branch coincided with a data-hazard stall and IF/ID, which held an
\* instruction, came out as the bubble
C11_Witness ==
    /\ prev.valid /\ prev.take_branch
    /\ prev.hz.stall_pc /\ prev.hz.stall_ifid /\ prev.hz.flush_ifid
    /\ prev.ifid # IFIDBubble
    /\ ifid = IFIDBubble

\* C12: in every cycle where stall_pc is asserted at the end of settling the
\* PC register keeps its value, whatever connects wrote earlier in the pass.
C12_StalledPCHolds ==
    (prev.valid /\ prev.hz.stall_pc) => pc = prev.pc

\* the PC the previous cycle had to commit: the branch unit's next PC, or the
\* held PC under stall_pc
PrevNextPC ==
    IF prev.hz.stall_pc THEN prev.pc
    ELSE LET x == ExceptionUnit(prev.pc, ecall_o(prev.ifid), mret_o(prev.ifid), prev.csr)
         IN  BranchUnit(prev.pc, x.raise_exception, x.npc, x.trap_return, x.npc,
                        prev.take_branch, prev.alu_res)

LatchedAfterLoad(ld) ==
    /\ prev.valid /\ ~prev.hz.stall_ifid /\ ~prev.hz.flush_idex
    /\ prev.ifid.inst.low2 = 3
    /\ ld.we /\ ld.wb_sel = 2 /\ ld.rd # 0
    /\ Reads(prev.ifid.inst, ld.rd)

\* the load a latched dependent instruction follows, wherever it is
LatchedDependent ==
    \/ LatchedAfterLoad(prev.idex) /\ prev.idex.pc + 4 = prev.ifid.pc
    \/ LatchedAfterLoad(prev.exmem) /\ prev.exmem.pc4 = prev.ifid.pc
    \/ LatchedAfterLoad(prev.memwb) /\ prev.memwb.pc4 = prev.ifid.pc

\* the sources ID/EX latched for the registers equal to r hold value v
LatchedSources(r, v) ==
    /\ (prev.ifid.inst.opcode \in ReadsRs1 /\ prev.ifid.inst.rs1 = r) => idex.rs1 = v
    /\ (prev.ifid.inst.opcode \in ReadsRs2 /\ prev.ifid.inst.rs2 = r) => idex.rs2 = v

\* C14: an instruction that reads the register loaded by the instruction
\* before it is held in ID for exactly one cycle, and the source value it
\* latches is the loaded value.
C14_LoadUseOneStall ==
    /\ LatchedDependent =>
          /\ prev.held = 1
          /\ LatchedAfterLoad(prev.memwb) /\ prev.memwb.pc4 = prev.ifid.pc
             => LatchedSources(prev.memwb.rd, prev.memwb.mem_rdata)
    /\ (prog = ProgLoadUse \o Pad \o EndLoop /\ Drained) => regf[12] = 200

\* C14 as amended: it is held in ID for exactly two cycles, until the load
\* is in MEM/WB, and the source value it latches is the loaded value.
C14_LoadUseTwoStalls ==
    /\ LatchedDependent =>
          /\ prev.held = 2
          /\ LatchedAfterLoad(prev.memwb) /\ prev.memwb.pc4 = prev.ifid.pc
          /\ LatchedSources(prev.memwb.rd, prev.memwb.mem_rdata)
    /\ (prog = ProgLoadUse \o Pad \o EndLoop /\ Drained) => regf[12] = 200

\* the add of the load-use scenario latched the loaded 100 while the register
\* file still held the pre-load 0
C14_Witness ==
    /\ prog = ProgLoadUse \o Pad \o EndLoop
    /\ LatchedDependent /\ prev.held = 2
    /\ prev.memwb.rd = 11 /\ prev.memwb.mem_rdata = 100 /\ prev.regf[11] = 0
    /\ idex.rs1 = 100 /\ idex.rs2 = 100 /\ idex.rd = 12

\* the previous cycle latched into ID/EX the instruction at address a
LatchedAt(a) ==
    /\ prev.valid /\ ~prev.hz.stall_ifid /\ ~prev.hz.flush_idex
    /\ prev.ifid.pc = a /\ idex.pc = a

\* C15: the ADDI chain ends with x1 = 5, x2 = 12, x3 = 15, and each of the two
\* dependent ADDIs is stalled for exactly one cycle.
C15_AddiChainOneStall ==
    prog = ProgAddiChain \o Pad \o EndLoop =>
        /\ Drained => regf[1] = 5 /\ regf[2] = 12 /\ regf[3] = 15
        /\ LatchedAt(4) => prev.held = 1
        /\ LatchedAt(8) => prev.held = 1

\* C15 as amended: each of the two dependent ADDIs is stalled for exactly two
\* cycles.
C15_AddiChainTwoStalls ==
    prog = ProgAddiChain \o Pad \o EndLoop =>
        /\ Drained => regf[1] = 5 /\ regf[2] = 12 /\ regf[3] = 15
        /\ LatchedAt(4) => prev.held = 2 /\ idex.rs1 = 5
        /\ LatchedAt(8) => prev.held = 2 /\ idex.rs1 = 12
        /\ prev.held <= 2

\* the ADDI chain has drained with its three results written
C15_Witness ==
    /\ prog = ProgAddiChain \o Pad \o EndLoop
    /\ Drained
    /\ regf[1] = 5 /\ regf[2] = 12 /\ regf[3] = 15

\* C16: register x0 reads 0 in every state, and a writeback whose rd is 0 or
\* whose we is false changes no register.
C16_X0ReadsZero ==
    /\ regf[0] = 0
    /\ RegfileRead(regf, 0) = 0
    /\ (prev.valid /\ (prev.memwb.rd = 0 \/ ~prev.memwb.we)) => regf = prev.regf

\* a writeback with we, rd = 0 and a nonzero value was committed and x0 still
\* reads 0
C16_Witness ==
    /\ prev.valid /\ prev.memwb.we /\ prev.memwb.rd = 0
    /\ WBValue(prev.memwb) # 0
    /\ regf[0] = 0 /\ regf = prev.regf
    /\ \E r \in RegIdx : regf[r] # 0

\* stage record r belongs to a JAL or JALR that links into a register
Links(r) == r.we /\ r.wb_sel = 1 /\ r.rd # 0

\* C17: a taken JAL or JALR with rd # 0 is not flushed: from the cycle it
\* asserts take_branch it moves from EX/MEM to MEM/WB and then writes its own
\* pc + 4 to rd, staying one cycle in each register.
C17_JumpLinkNotFlushed ==
    prev.valid =>
        /\ (prev.take_branch /\ Links(prev.exmem)) =>
               /\ ~prev.hz.flush_exmem /\ ~prev.flush_memwb
               /\ memwb = MEMStage(prev.exmem, prev.dmem)
               /\ Links(memwb) /\ memwb.pc4 = prev.exmem.pc4
        /\ Links(prev.memwb) =>
               /\ regf[prev.memwb.rd] = prev.memwb.pc4
               /\ \A r \in RegIdx \ {prev.memwb.rd} : regf[r] = prev.regf[r]
        /\ Links(memwb) => memwb = MEMStage(prev.exmem, prev.dmem)

\* the jalr at address 4 was taken, passed MEM/WB and wrote 8 to x5
C17_Witness ==
    /\ prog = ProgJalr \o Pad \o EndLoop
    /\ prev.valid /\ Links(prev.memwb)
    /\ prev.memwb.rd = 5 /\ prev.memwb.pc4 = 8 /\ prev.memwb.alu_res = 12
    /\ prev.regf[5] = 0 /\ regf[5] = 8

\* an ID/EX record that is a bubble slot: the flush value, or the decode of
\* the IF/ID bubble
BubbleSlot(d) == d = IDEXBubble \/ d = Decode(IFIDBubble, [r \in RegIdx |-> 0])

\* C18: after a taken branch or jump was in EX, the next two slots to enter
\* EX are bubbles and the third is the instruction at the branch target.
C18_TwoBubblesThenTarget ==
    prev.valid =>
        /\ prev.br_age \in {0, 1} => BubbleSlot(idex)
        /\ prev.br_age = 2 => ~BubbleSlot(idex) /\ idex.pc = prev.br_target

C20_ExceptionFlushes ==
    (prev.valid /\ (ecall_o(prev.ifid) \/ mret_o(prev.ifid))) =>
        /\ prev.hz.flush_ifid /\ prev.hz.flush_idex
        /\ ifid = IFIDBubble /\ idex = IDEXBubble

\* C21: whenever an exception is raised for an ECALL in the ID stage, the mepc
\* value driven to the CSR unit, and written there at the clock edge, is the
\* address of the ECALL carried in IF/ID.
C21_MepcIsEcallAddress ==
    /\ (ecall_o(ifid) /\ Excep.raise_exception) => Excep.mepc = ifid.pc
    /\ (prev.valid /\ ecall_o(prev.ifid)) => csr.mepc = prev.ifid.pc

\* stage record r writes a register that instruction word inst reads
Produces(r, inst) == r.we /\ r.rd # 0 /\ Reads(inst, r.rd)

\* C22: stall_pc and stall_ifid are asserted only if a record with rd # 0 in
\* ID/EX or EX/MEM writes a register that the opcode of the IF/ID instruction
\* reads; an IF/ID word whose low two bits are not 11 and the canonical NOP
\* never stall, nor does a producer that is in MEM/WB only.
C22_StallOnlyOnRealHazard ==
    prev.valid =>
        /\ (prev.hz.stall_pc \/ prev.hz.stall_ifid) =>
               /\ prev.ifid.inst.low2 = 3
               /\ prev.ifid.inst # NOP
               /\ Produces(prev.idex, prev.ifid.inst) \/ Produces(prev.exmem, prev.ifid.inst)
        /\ prev.hz.stall_pc = prev.hz.stall_ifid

\* a producer in EX/MEM alone stalled its reader, and in the next cycle, with
\* the producer in MEM/WB, the reader was not stalled
C22_Witness ==
    /\ prev.valid /\ ~prev.hz.stall_pc
    /\ prev.held = 2
    /\ Produces(prev.memwb, prev.ifid.inst)
    /\ ~Produces(prev.idex, prev.ifid.inst) /\ ~Produces(prev.exmem, prev.ifid.inst)
    /\ pc # prev.pc

\* stage record r is the all-zero record as far as its effects go
ZeroRecord(r) == ~r.we /\ r.rd = 0

\* C23: immediately after reset(), from any prior state, IF/ID holds the
\* canonical NOP with pc -4, ID/EX, EX/MEM and MEM/WB hold the all-zero record,
\* the cycle counter is 0 and x0 reads 0, while the program and the data in
\* memory are unchanged.
C23_ResetState ==
    [][Reset =>
         /\ ifid' = [inst |-> NOP, pc |-> -4]
         /\ ZeroRecord(idex') /\ idex'.mem = 0
         /\ ZeroRecord(exmem') /\ exmem'.mem = 0
         /\ ZeroRecord(memwb')
         /\ idex' = IDEXBubble /\ exmem' = EXMEMBubble /\ memwb' = MEMWBBubble
         /\ cyc' = 0
         /\ RegfileRead(regf', 0) = 0 /\ regf'[0] = 0
         /\ prog' = prog /\ dmem' = dmem]_vars

\* the state after a reset of a run that had stored 100 to memory: registers
\* at their reset values, the stored word still in memory
C23_Witness ==
    /\ cyc = 0 /\ ~prev.valid
    /\ dmem[64] = 100
    /\ ifid = [inst |-> NOP, pc |-> -4]
    /\ idex = IDEXBubble /\ exmem = EXMEMBubble /\ memwb = MEMWBBubble
    /\ regf = [r \in RegIdx |-> 0]

\* C24: stall_idex, stall_exmem, stall_memwb and flush_exmem are false in
\* every state and the flush input of MEM/WB is constantly false; EX/MEM holds
\* the EX result of the record ID/EX held in the cycle before and MEM/WB the
\* MEM result of the record EX/MEM held in the cycle before, unconditionally.
C24_LaterStagesAlwaysLatch ==
    /\ ~hz.stall_idex /\ ~hz.stall_exmem /\ ~hz.stall_memwb /\ ~hz.flush_exmem
    /\ ~memwb_flush_i
    /\ prev.valid =>
           /\ ~prev.hz.stall_idex /\ ~prev.hz.stall_exmem /\ ~prev.hz.stall_memwb
           /\ ~prev.hz.flush_exmem /\ ~prev.flush_memwb
           /\ exmem = EXStage(prev.idex)
           /\ memwb = MEMStage(prev.exmem, prev.dmem)

\* in a cycle with a data-hazard stall, a load in EX and a writing record in
\* MEM both moved on
C24_Witness ==
    /\ prev.valid /\ prev.hz.stall_pc /\ prev.hz.stall_ifid
    /\ prev.idex.mem = 1 /\ prev.exmem.we
    /\ exmem = EXStage(prev.idex) /\ exmem # prev.exmem
    /\ memwb = MEMStage(prev.exmem, prev.dmem) /\ memwb # prev.memwb

\* C25: a load of an image longer than the memory ends with InvalidBinary and
\* leaves the size and the contents of the memory unchanged; a load of an
\* image that fits overwrites exactly the cells 0..len-1 and leaves every
\* other cell and the size unchanged.
C25_LoadBoundedByMemory ==
    [][IF Len(loaded'.image) > Len(prog)
       THEN loaded'.raised = "InvalidBinary" /\ prog' = prog
       ELSE /\ loaded'.raised = "none"
            /\ Len(prog') = Len(prog)
            /\ \A i \in 1..Len(prog) :
                 prog'[i] = IF i <= Len(loaded'.image) THEN loaded'.image[i] ELSE prog[i]]_vars

\* every cycle since reset ran without stall, taken branch or trap
StraightSoFar ==
    /\ prev.valid /\ prev.straight
    /\ ~prev.hz.stall_pc /\ ~prev.take_branch
    /\ ~ecall_o(prev.ifid) /\ ~mret_o(prev.ifid)

PIPELINE_DEPTH == 5

\* C26: while no branch and no stall has occurred since reset, n >= 5 calls of
\* step() have advanced the PC from its reset value by 4 * (n - 5 + 1).
C26_PCAdvanceAfterPriming ==
    (StraightSoFar /\ cyc >= PIPELINE_DEPTH) => pc - (-4) = 4 * (cyc - PIPELINE_DEPTH + 1)

\* C26 as amended: while no branch and no stall has occurred since reset, n
\* calls of step() have advanced the PC from its reset value by 4 * n, from
\* the first step on.
C26_PCAdvanceFourPerStep ==
    StraightSoFar => pc - (-4) = 4 * cyc

\* seven steps without stall or branch: the PC reads 24
C26_Witness ==
    /\ StraightSoFar /\ cyc = 7
    /\ pc = 24
    /\ memwb.pc4 = 12

\* the RV32I and CSR encodings: low bits 11 and an assigned combination of
\* opcode, funct3 and funct7
Recognized(inst) ==
    /\ inst.low2 = 3
    /\ \/ inst.opcode = OPCODES.OP
          /\ (inst.funct7 = 0 \/ (inst.funct7 = 32 /\ inst.funct3 \in {0, 5}))
       \/ inst.opcode = OPCODES.OPIMM
          /\ \/ inst.funct3 \in {0, 2, 3, 4, 6, 7}
             \/ inst.funct3 = 1 /\ inst.funct7 = 0
             \/ inst.funct3 = 5 /\ inst.funct7 \in {0, 32}
       \/ inst.opcode = OPCODES.LOAD /\ inst.funct3 \in {0, 1, 2, 4, 5}
       \/ inst.opcode = OPCODES.STORE /\ inst.funct3 \in {0, 1, 2}
       \/ inst.opcode = OPCODES.BRANCH /\ inst.funct3 \in {0, 1, 4, 5, 6, 7}
       \/ inst.opcode \in {OPCODES.JAL, OPCODES.LUI, OPCODES.AUIPC}
       \/ inst.opcode = OPCODES.JALR /\ inst.funct3 = 0
       \/ inst.opcode = OPCODES.SYSTEM /\ inst.funct3 \in {1, 2, 3, 5, 6, 7}
       \/ inst \in {ECALL, MRET}

\* C27: disassemble returns for every word; for every word that is not a
\* recognized encoding, words with low bits other than 11 included, it returns
\* UNKNOWN with the text "unknown instruction (0x...)"; for 0x00000013, 0x73
\* and 0x30200073 it returns NOP, ECALL and MRET.
C27_UnknownForUnrecognized ==
    disasm.returned =>
        /\ ~Recognized(disasm.inst) =>
               /\ disasm.mnemonic = "UNKNOWN"
               /\ disasm.text.fmt = "unknown instruction (0x%08x)"
               /\ disasm.text.args = <<disasm.inst>>
        /\ disasm.inst = NOP => disasm.mnemonic = "NOP"
        /\ disasm.inst = ECALL => disasm.mnemonic = "ECALL"
        /\ disasm.inst = MRET => disasm.mnemonic = "MRET"

\* PipelinedGUI._handle_post_step: the viewer's test for an empty pipeline
pipeline_empty ==
    /\ ifid.inst = ZeroWord
    /\ ~(idex.opcode # 0 \/ idex.rd # 0)
    /\ exmem.rd = 0
    /\ memwb.rd = 0

\* all four pipeline registers hold bubble values
AllBubbles ==
    /\ ifid.inst = NOP
    /\ ~idex.we /\ idex.mem = 0 /\ idex.rd = 0
    /\ ~exmem.we /\ exmem.mem = 0 /\ exmem.rd = 0
    /\ ~memwb.we /\ memwb.rd = 0

\* C28: after a step the viewer's stop condition holds exactly when all four
\* pipeline registers hold bubble values.
C28_StopIffAllBubbles ==
    cyc >= 1 => (pipeline_empty <=> AllBubbles)

\* instruction addresses of the programs
Addrs == {4 * i : i \in 0..(BodyLen + 6)}

\* the previous cycle latched into ID/EX the instruction IF/ID held, from address a
AdvancedFrom(a) ==
    /\ prev.valid /\ ~prev.hz.stall_ifid /\ ~prev.hz.flush_idex
    /\ prev.ifid.pc = a /\ idex.pc = a

\* the previous cycle flushed the instruction IF/ID held, from address a
FlushedFrom(a) == prev.valid /\ prev.hz.flush_ifid /\ prev.ifid.pc = a /\ ifid = IFIDBubble

\* stall_pc is never asserted in more than two consecutive cycles
StallAtMostTwoCycles ==
    prev.valid =>
        /\ prev.hz.stall_pc => prev.held <= 1
        /\ prev.held <= 2

\* C29: stall_pc is never asserted in more than two consecutive cycles, and
\* the instruction held in IF/ID eventually advances into ID/EX.
C29_StalledAdvances ==
    /\ []StallAtMostTwoCycles
    /\ \A a \in Addrs : (ifid.pc = a /\ cyc <= MaxCycles - 3) ~> AdvancedFrom(a)

\* C29 as amended: stall_pc is never asserted in more than two consecutive
\* cycles, and the instruction held in IF/ID eventually leaves it: it advances
\* into ID/EX, or a taken branch flushes it.
C29_StalledAdvancesOrFlushed ==
    /\ []StallAtMostTwoCycles
    /\ \A a \in Addrs :
         (ifid.pc = a /\ cyc <= MaxCycles - 3) ~> (AdvancedFrom(a) \/ FlushedFrom(a))

\* an instruction stalled for two cycles advanced into ID/EX
C29_Witness ==
    /\ prev.valid /\ prev.held = 2
    /\ AdvancedFrom(prev.ifid.pc)
    /\ prev.ifid.pc \in Addrs

\* ID/EX is one of the two slots behind a taken branch or jump
InShadow == prev.br_age \in {0, 1}

\* C30: across stall cycles no instruction is lost or duplicated: an
\* instruction that enters EX outside the shadow of a taken branch is the next
\* one in program order, and during a stall cycle the slot entering EX is a
\* bubble while IF/ID and the PC keep their values.
C30_NoInstructionLost ==
    prog \notin {ProgEcall \o Pad \o EndLoop, ProgMret \o Pad \o EndLoop} =>
        /\ (EnteredEX /\ ~InShadow) => idex.pc = ExpectedEX
        /\ (prev.valid /\ prev.hz.stall_pc) =>
               idex = IDEXBubble /\ ifid = prev.ifid /\ pc = prev.pc

\* C31: in every reachable state the hazard unit's outputs satisfy
\* stall_pc = stall_ifid, and stall_pc implies flush_idex: the PC and IF/ID are
\* frozen together and every frozen cycle puts a bubble into ID/EX.
C31_StallOutputsCoupled ==
    /\ hz.stall_pc = hz.stall_ifid
    /\ hz.stall_pc => hz.flush_idex

\* a data hazard alone, no branch being taken, drives the three outputs
C31_Witness ==
    /\ cyc > 0 /\ ~take_branch
    /\ HazardStall(ifid, idex, exmem)
    /\ hz.stall_pc /\ hz.stall_ifid /\ hz.flush_idex /\ ~hz.flush_ifid

\* instruction word inst is a CSR instruction with a register source
CsrRegSource(inst) ==
    /\ inst.low2 = 3 /\ inst.opcode = OPCODES.SYSTEM
    /\ inst.funct3 \in {CSR_F3.CSRRW, CSR_F3.CSRRS, CSR_F3.CSRRC}

\* stage record r writes the register that instruction word inst names as rs1
WritesRs1Of(r, inst) == r.we /\ r.rd # 0 /\ r.rd = inst.rs1

\* C32: a CSRRW, CSRRS or CSRRC in IF/ID whose rs1 equals the rd (!= 0) of a
\* register-writing instruction still in ID/EX or EX/MEM is stalled, so that it
\* reads the writer's result and not the stale register value.
C32_CsrSourceHazardStalls ==
    (/\ prev.valid /\ CsrRegSource(prev.ifid.inst)
     /\ WritesRs1Of(prev.idex, prev.ifid.inst) \/ WritesRs1Of(prev.exmem, prev.ifid.inst))
        => prev.hz.stall_pc /\ prev.hz.stall_ifid

\* the instruction in IF/ID of the previous cycle was fetched behind a taken
\* branch that was then in EX or in EX/MEM and had not yet redirected the PC
FetchedInShadow == prev.valid /\ (prev.ex_taken \/ prev.exmem.take_branch)

\* C33: an ECALL or MRET fetched in the shadow of a taken branch raises no
\* exception and no trap return: mepc and mcause are not written and the PC is
\* not redirected to mtvec or mepc on its account.
C33_ShadowEcallMretSuppressed ==
    (FetchedInShadow /\ (ecall_o(prev.ifid) \/ mret_o(prev.ifid))) =>
        /\ csr.mepc = prev.csr.mepc /\ csr.mcause = prev.csr.mcause
        /\ pc = IF prev.hz.stall_pc THEN prev.pc
                ELSE BranchUnit(prev.pc, FALSE, 0, FALSE, 0, prev.take_branch, prev.alu_res)

\* C34: connects is re-evaluated whenever a value it reads changes, so at the
\* end of each settle pass take_branch and alu_res equal the fields of the
\* current EX/MEM record and the PC register's next reflects the final next-PC
\* and stall_pc of that cycle.
C34_ConnectsSettled ==
    pending = {} =>
        /\ take_branch = exmem.take_branch
        /\ alu_res = exmem.alu_res
        /\ pc_next = IF hz.stall_pc THEN pc ELSE Npc(take_branch, alu_res)

\* C35: in the viewer at most one continuous-run callback chain is waiting at
\* any time, under every interleaving of the Run/Stop button, the Step button,
\* step errors, auto-stop and the timer callback, so that each timer period
\* executes at most one step.
C35_OneRunChain == RunLoopsWaiting <= 1

\* C37: while a Run N is in progress (remaining count > 0) neither the Step
\* button nor the continuous run executes a simulator step, under every
\* sequence of user actions including Compile & Load, Reset and Clear Logs.
C37_RunNExclusive ==
    gui.stepped_by \in {"step_cycle", "run_loop"} => ~gui.stepped_in_run_n

\* no _run_n_step is waiting: the Step and Run buttons are enabled and the
\* Run N button is back to its own command
RunNControlsRestored ==
    (gui.model /\ gui.n_waiting = 0) =>
        /\ gui.step_btn = "normal" /\ gui.run_btn = "normal"
        /\ gui.run_n_command = "run_n_cycles"

\* C36: Run N with a positive N executes exactly N simulator steps when it is
\* not interrupted, and strictly fewer when the user cancels it, a step raises
\* an error or auto-stop fires; after a cancel no further step of that Run N
\* is executed, and the run ends with the Step and Run buttons enabled and the
\* button restored to Run N.
C36_RunNExactOrFewer ==
    /\ (gui.n > 0 /\ gui.run_n_remaining = 0) =>
           IF gui.n_interrupted THEN gui.n_steps < gui.n ELSE gui.n_steps = gui.n
    /\ gui.n_interrupted => gui.run_n_remaining = 0
    /\ RunNControlsRestored

\* C36 as amended: exactly N steps when not interrupted and never more than N;
\* an interruption leaves the remaining count at 0, so that no further step of
\* that Run N is executed, and the run ends with the controls restored.
C36_RunNExactOrAtMost ==
    /\ gui.n_steps + gui.run_n_remaining <= gui.n
    /\ ~gui.n_interrupted => gui.n_steps + gui.run_n_remaining = gui.n
    /\ gui.n_interrupted => gui.run_n_remaining = 0
    /\ RunNControlsRestored

\* a Run N of MaxN steps has run to its end without interruption
C36_Witness ==
    /\ gui.n = MaxN /\ gui.n_steps = MaxN /\ ~gui.n_interrupted
    /\ gui.run_n_remaining = 0 /\ gui.n_waiting = 0
    /\ gui.stepped_by = "none"
    /\ gui.step_btn = "normal" /\ gui.run_n_command = "run_n_cycles"

\* C38: the stability counter equals the number of most recent consecutive
\* steps whose snapshot did not differ from the previous one (0 after a step
\* with a difference, after load and after clearing the logs), and a
\* continuous run or Run N is stopped as soon as the counter reaches 6, never
\* earlier on account of stability.
C38_StabilityCounter ==
    /\ gui.stable_count = gui.consecutive
    /\ (gui.stepped_by # "none" /\ gui.consecutive >= 6) =>
           ~gui.running /\ gui.run_n_remaining = 0
    /\ gui.stopped_by = "stable" => gui.consecutive >= 6

\* a continuous run has just been stopped by its sixth step without a change
C38_Witness ==
    /\ gui.stepped_by = "run_loop" /\ gui.stopped_by = "stable"
    /\ gui.consecutive = 6 /\ gui.stable_count = 6
    /\ ~gui.running
====
